---- MODULE Spec2Model ----
(***************************************************************************)
(* State-machine model of the fast-api-server of ygo-solitaire:            *)
(*   src/settings.py           the Settings class and get_settings()       *)
(*   src/main.py               startup: settings, FastAPI app, CORS, router *)
(*   src/routes/heartbeat.py   the heartbeat route                          *)
(*                                                                         *)
(* Library calls are modelled by what the call does at the place the        *)
(* source makes it: os.getenv, functools.lru_cache, pydantic-settings'      *)
(* BaseSettings (environment source, case-insensitive names, JSON decoding  *)
(* of complex fields), Starlette's CORSMiddleware and Router, and FastAPI's *)
(* built-in documentation routes.                                           *)
(*                                                                         *)
(* Optional values (Python's None) are sequences of length 0 or 1.          *)
(***************************************************************************)
EXTENDS Naturals, Sequences, FiniteSets, TLC

None == <<>>
Some(v) == <<v>>

(***************************************************************************)
(* Bounds of the model.                                                     *)
(***************************************************************************)
\* os.environ mutations in one behaviour
MaxEnvChanges == 1
\* worker threads that call get_settings()
NWorkers == 2
\* requests counted by nHandled
MaxRequests == 2

Workers == 1..NWorkers

(***************************************************************************)
(* The process environment (os.environ).                                    *)
(***************************************************************************)
EnvNames ==
    {"GOOGLE_CLOUD_PROJECT", "DEFAULT_REGION", "APP_NAME", "APP_VERSION",
     "ALLOWED_ORIGINS"}

\* The values a variable takes in the model; None is "unset".
EnvValues(name) ==
    CASE name = "GOOGLE_CLOUD_PROJECT" -> {None, Some("my-proj"), Some("other-proj")}
      [] name = "DEFAULT_REGION" -> {None, Some("us-central1")}
      [] name = "APP_NAME" -> {None, Some("Custom API")}
      [] name = "APP_VERSION" -> {None, Some("9.9.9")}
      [] name = "ALLOWED_ORIGINS" ->
            {None, Some("[\"https://app.example\"]"), Some("not-json")}

\* The environments of the settings specifications.
Environments == {e \in [EnvNames -> UNION {EnvValues(n) : n \in EnvNames}] :
                    \A n \in EnvNames : e[n] \in EnvValues(n)}

\* The values ALLOWED_ORIGINS takes in the HTTP specification.
HttpOriginsValues ==
    {None, Some("[]"), Some("[\"https://app.example\"]"), Some("[\"*\"]"),
     Some("not-json")}

\* The environments of the HTTP specification: only ALLOWED_ORIGINS varies.
HttpEnvironments ==
    {[n \in EnvNames |-> IF n = "ALLOWED_ORIGINS" THEN v ELSE None] :
        v \in HttpOriginsValues}

\* Mutant: os.getenv(name, ""), an empty string for an unset variable.
MutGetenvEmptyDefault(env, name) ==
    IF env[name] = None THEN Some("") ELSE env[name]

\* os.getenv(name): the value, or None when the variable is unset.
getenv(env, name) == env[name]

(***************************************************************************)
(* class Settings(BaseSettings)                                             *)
(***************************************************************************)
\* str.lower() on the environment names of the model.
Lower(name) ==
    CASE name = "GOOGLE_CLOUD_PROJECT" -> "google_cloud_project"
      [] name = "DEFAULT_REGION" -> "default_region"
      [] name = "APP_NAME" -> "app_name"
      [] name = "APP_VERSION" -> "app_version"
      [] name = "ALLOWED_ORIGINS" -> "allowed_origins"
      [] OTHER -> name

\* BaseSettings' environment source: the variable whose lower-cased name is
\* the field's name (case_sensitive = False, env_prefix = ""), or None.
EnvField(env, field) ==
    IF \E n \in EnvNames : Lower(n) = field /\ env[n] # None
    THEN env[CHOOSE n \in EnvNames : Lower(n) = field /\ env[n] # None]
    ELSE None

\* json.loads followed by validation as list[str], on the strings of the
\* model: Some(list), or None when decoding or validation fails.
JsonLoadsStrList(s) ==
    CASE s = "[]" -> Some(<<>>)
      [] s = "[\"https://app.example\"]" -> Some(<<"https://app.example">>)
      [] s = "[\"*\"]" -> Some(<<"*">>)
      [] OTHER -> None

\* Mutant: the class body allows every origin by default.
MutClassDefaultsAnyOrigin(moduleGlobals) ==
    [app_name |-> "Sample API",
     app_version |-> "0.1.0",
     allowed_origins |-> <<"*">>,
     google_cloud_project |-> moduleGlobals.google_cloud_project,
     default_region |-> moduleGlobals.default_region]

\* The field defaults of the class body, evaluated when the module is loaded.
ClassDefaults(moduleGlobals) ==
    [app_name |-> "Sample API",
     app_version |-> "0.1.0",
     allowed_origins |-> <<>>,
     google_cloud_project |-> moduleGlobals.google_cloud_project,
     default_region |-> moduleGlobals.default_region]

\* A simple (str) field: the environment's value when present, else the default.
StrField(env, field, default) ==
    IF EnvField(env, field) # None THEN EnvField(env, field)[1] ELSE default

\* Mutant: a plain model, whose optional fields are their defaults.
MutOptFieldDefaultOnly(env, field, default) == default

\* An optional (str | None) field, likewise.
OptField(env, field, default) ==
    IF EnvField(env, field) # None THEN EnvField(env, field) ELSE default

\* A complex (list[str]) field: the environment's value is JSON-decoded.
\* Some(list), or None when the value does not decode (SettingsError).
ListField(env, field, default) ==
    IF EnvField(env, field) # None
    THEN JsonLoadsStrList(EnvField(env, field)[1])
    ELSE Some(default)

\* Settings(): Some(value), or None when construction raises.
NewSettings(env, defaults) ==
    LET origins == ListField(env, "allowed_origins", defaults.allowed_origins)
    IN  IF origins = None
        THEN None
        ELSE Some([app_name |-> StrField(env, "app_name", defaults.app_name),
                   app_version |->
                       StrField(env, "app_version", defaults.app_version),
                   allowed_origins |-> origins[1],
                   google_cloud_project |->
                       OptField(env, "google_cloud_project",
                                defaults.google_cloud_project),
                   default_region |->
                       OptField(env, "default_region", defaults.default_region)])

\* Mutant: get_settings without @lru_cache.
MutLruNeverHits(c) == FALSE

\* @lru_cache: a call with no arguments hits once a result is stored.
LruHit(c) == c # None

(***************************************************************************)
(* HTTP requests and responses.                                             *)
(***************************************************************************)
\* A path is the sequence of its segments: "/api/heartbeat" is
\* <<"api", "heartbeat">>, "/docs/" is <<"docs", "">>, "/" is <<"">>.
HeartbeatPath == <<"api", "heartbeat">>

Methods == {"GET", "POST", "OPTIONS", "HEAD"}

Paths ==
    {HeartbeatPath, HeartbeatPath \o <<"">>, <<"api", "unknown">>,
     <<"docs">>, <<"docs", "">>, <<"docs", "", "">>, <<"openapi.json">>, <<"">>}

Origins == {None, Some("https://app.example"), Some("https://evil.example")}

\* Access-Control-Request-Method
RequestMethods == {None, Some("GET"), Some("DELETE")}

\* Access-Control-Request-Headers, as the list of the names it carries
RequestHeaders == {None, Some(<<"Content-Type">>), Some(<<"Accept", "X-Custom">>)}

Queries == {None, Some("verbose=1")}

Request(m, p, o, rm, rh, c, q) ==
    [method |-> m, path |-> p, origin |-> o, acrm |-> rm, acrh |-> rh,
     cookie |-> c, query |-> q]

\* The requests of the HTTP specification.
AllRequests ==
    {Request(m, p, o, rm, rh, c, q) :
        m \in Methods, p \in Paths, o \in Origins, rm \in RequestMethods,
        rh \in RequestHeaders, c \in BOOLEAN, q \in Queries}

\* The requests of the settings specification.
CoreRequests ==
    {Request("GET", HeartbeatPath, None, None, None, FALSE, None),
     Request("OPTIONS", HeartbeatPath, Some("https://app.example"), Some("GET"),
             None, FALSE, None)}

\* Response headers the model tracks; None is "absent".
NoHeaders ==
    [acao |-> None, acac |-> None, acam |-> None, acah |-> None,
     aceh |-> None, acma |-> None, vary |-> None, location |-> None,
     allow |-> None]

Response(status, body, headers, handler) ==
    [status |-> status, body |-> body, headers |-> headers, handler |-> handler]

SeqToSet(s) == {s[i] : i \in DOMAIN s}

(***************************************************************************)
(* app.add_middleware(CORSMiddleware, ...)                                  *)
(***************************************************************************)
SafelistedHeaders == {"Accept", "Accept-Language", "Content-Language", "Content-Type"}

AllMethods == <<"DELETE", "GET", "HEAD", "OPTIONS", "PATCH", "POST", "PUT">>

\* str.lower() on the header names of the model.
HeaderLower(h) ==
    CASE h = "Accept" -> "accept"
      [] h = "Accept-Language" -> "accept-language"
      [] h = "Content-Language" -> "content-language"
      [] h = "Content-Type" -> "content-type"
      [] h = "Cache-Control" -> "cache-control"
      [] h = "Origin" -> "origin"
      [] h = "X-Custom" -> "x-custom"
      [] OTHER -> h

\* CORSMiddleware.__init__: the policy the middleware keeps. A header whose
\* value is a ", "-joined list is kept as that list (the allowed headers,
\* which the middleware sorts, as the set of its names).
CORSMiddleware(origins, credentials, methods, headers, expose_headers) ==
    LET allow_methods == IF "*" \in SeqToSet(methods) THEN AllMethods
                         ELSE methods
        allow_all_origins == "*" \in SeqToSet(origins)
        allow_all_headers == "*" \in SeqToSet(headers)
        explicit == ~allow_all_origins \/ credentials
        allow_headers == SafelistedHeaders \cup SeqToSet(headers)
    IN  [allow_origins |-> origins,
         allow_methods |-> allow_methods,
         allow_headers |-> {HeaderLower(h) : h \in allow_headers},
         allow_all_origins |-> allow_all_origins,
         allow_all_headers |-> allow_all_headers,
         preflight_explicit_allow_origin |-> explicit,
         simple_headers |->
            [NoHeaders EXCEPT
                !.acao = IF allow_all_origins THEN Some("*") ELSE None,
                !.acac = IF credentials THEN Some("true") ELSE None,
                !.aceh = IF expose_headers # <<>> THEN Some(expose_headers)
                         ELSE None],
         preflight_headers |->
            [NoHeaders EXCEPT
                !.vary = IF explicit THEN Some("Origin") ELSE None,
                !.acao = IF explicit THEN None ELSE Some("*"),
                !.acam = Some(allow_methods),
                !.acma = Some("600"),
                !.acah = IF allow_headers # {} /\ ~allow_all_headers
                         THEN Some(allow_headers) ELSE None,
                !.acac = IF credentials THEN Some("true") ELSE None]]

\* CORSMiddleware.is_allowed_origin (no allow_origin_regex is configured)
is_allowed_origin(policy, origin) ==
    policy.allow_all_origins \/ origin \in SeqToSet(policy.allow_origins)

TextBody(text, args) == [text |-> text, args |-> args]
JSONResponse(content) == [json |-> content]

\* CORSMiddleware.preflight_response: the middleware answers itself, with
\* the preflight headers on success (200) and on failure (400) alike.
preflight_response(policy, req) ==
    LET origin == req.origin[1]
        originOk == is_allowed_origin(policy, origin)
        headers0 == policy.preflight_headers
        headers1 == IF originOk /\ policy.preflight_explicit_allow_origin
                    THEN [headers0 EXCEPT !.acao = Some(origin)]
                    ELSE headers0
        headers2 == IF policy.allow_all_headers /\ req.acrh # None
                    THEN [headers1 EXCEPT !.acah = Some(SeqToSet(req.acrh[1]))]
                    ELSE headers1
        badHeaders == /\ ~policy.allow_all_headers
                      /\ req.acrh # None
                      /\ \E h \in SeqToSet(req.acrh[1]) :
                            HeaderLower(h) \notin policy.allow_headers
        failures == (IF originOk THEN <<>> ELSE <<"origin">>)
                    \o (IF req.acrm[1] \in SeqToSet(policy.allow_methods)
                        THEN <<>> ELSE <<"method">>)
                    \o (IF badHeaders THEN <<"headers">> ELSE <<>>)
    IN  IF failures # <<>>
        THEN Response(400, TextBody("Disallowed CORS", failures), headers2, FALSE)
        ELSE Response(200, TextBody("OK", <<>>), headers2, FALSE)

\* MutableHeaders.update: the given headers replace those of the same name.
HeadersUpdate(headers, new) ==
    [k \in DOMAIN headers |-> IF new[k] # None THEN new[k] ELSE headers[k]]

\* CORSMiddleware.allow_explicit_origin
allow_explicit_origin(headers, origin) ==
    [headers EXCEPT !.acao = Some(origin), !.vary = Some("Origin")]

\* CORSMiddleware.simple_response / send: the application's response with
\* the simple headers added, and the origin echoed when it is allowed.
simple_response(policy, req, resp) ==
    LET headers == HeadersUpdate(resp.headers, policy.simple_headers)
        origin == req.origin[1]
    IN  [resp EXCEPT !.headers =
            IF policy.allow_all_origins /\ req.cookie
            THEN allow_explicit_origin(headers, origin)
            ELSE IF ~policy.allow_all_origins /\ is_allowed_origin(policy, origin)
                 THEN allow_explicit_origin(headers, origin)
                 ELSE headers]

(***************************************************************************)
(* Routes: FastAPI's own (openapi, docs, redoc) and the heartbeat router.   *)
(***************************************************************************)
\* SimpleMessageResponse (src/schemas/response_body.py): one field, message.
SimpleMessageResponse(message) == [message |-> message]

\* def heartbeat() -> SimpleMessageResponse
heartbeat == SimpleMessageResponse("alive")

\* Mutant: @router.get(path="/").
MutHeartbeatRouterSlash ==
    <<[path |-> <<"">>, methods |-> {"GET"}, endpoint |-> "heartbeat"]>>

\* router = APIRouter(); @router.get(path="")
HeartbeatRouter == <<[path |-> <<>>, methods |-> {"GET"}, endpoint |-> "heartbeat"]>>

\* FastAPI(...): no openapi_url, docs_url or redoc_url is given, so setup()
\* registers the defaults, each a GET (and HEAD) route.
FastAPIRoutes ==
    <<[path |-> <<"openapi.json">>, methods |-> {"GET", "HEAD"}, endpoint |-> "openapi"],
      [path |-> <<"docs">>, methods |-> {"GET", "HEAD"}, endpoint |-> "swagger_ui_html"],
      [path |-> <<"docs", "oauth2-redirect">>, methods |-> {"GET", "HEAD"},
       endpoint |-> "swagger_ui_redirect"],
      [path |-> <<"redoc">>, methods |-> {"GET", "HEAD"}, endpoint |-> "redoc_html"]>>

\* app.include_router(router, prefix=...): each route's path behind the prefix.
include_router(routes, router, prefix) ==
    routes \o [i \in DOMAIN router |->
                  [router[i] EXCEPT !.path = prefix \o router[i].path]]

\* Mutant: a route matches every path its own path is a prefix of.
MutRouteMatchPrefix(route, method, path) ==
    IF \/ Len(path) < Len(route.path)
       \/ SubSeq(path, 1, Len(route.path)) # route.path
    THEN "none"
    ELSE IF method \in route.methods THEN "full"
    ELSE "partial"

\* Route.matches: "full", "partial" (the path alone matches) or "none".
RouteMatch(route, method, path) ==
    IF route.path # path THEN "none"
    ELSE IF method \in route.methods THEN "full"
    ELSE "partial"

\* The endpoint's response.
Endpoint(name) ==
    IF name = "heartbeat"
    THEN Response(200, JSONResponse(heartbeat), NoHeaders, TRUE)
    ELSE Response(200, TextBody(name, <<>>), NoHeaders, FALSE)

\* Route.handle: the endpoint, or 405 when the method is not the route's.
RouteHandle(route, method) ==
    IF method \in route.methods
    THEN Endpoint(route.endpoint)
    ELSE Response(405, JSONResponse([detail |-> "Method Not Allowed"]),
                  [NoHeaders EXCEPT !.allow = Some(route.methods)], FALSE)

\* str.rstrip("/") on a path
RECURSIVE RStripSlash(_)
RStripSlash(path) ==
    IF path # <<>> /\ path[Len(path)] = ""
    THEN RStripSlash(SubSeq(path, 1, Len(path) - 1))
    ELSE path

\* Router.app with redirect_slashes: the path with its trailing slash
\* toggled.
RedirectPath(path) ==
    IF path # <<>> /\ path[Len(path)] = "" THEN RStripSlash(path)
    ELSE path \o <<"">>

\* Router.app: the first full match, else the first partial match, else a
\* redirect when the slash-toggled path matches a route, else 404.
Router(routes, req) ==
    LET full == {i \in DOMAIN routes :
                    RouteMatch(routes[i], req.method, req.path) = "full"}
        partial == {i \in DOMAIN routes :
                    RouteMatch(routes[i], req.method, req.path) = "partial"}
        First(S) == CHOOSE i \in S : \A j \in S : i <= j
    IN  IF full # {} THEN RouteHandle(routes[First(full)], req.method)
        ELSE IF partial # {} THEN RouteHandle(routes[First(partial)], req.method)
        ELSE IF /\ req.path # <<"">>
                /\ \E i \in DOMAIN routes :
                      RouteMatch(routes[i], req.method, RedirectPath(req.path))
                          # "none"
             THEN Response(307, TextBody("", <<>>),
                           [NoHeaders EXCEPT !.location =
                               Some([path |-> RedirectPath(req.path),
                                     query |-> req.query])],
                           FALSE)
             ELSE Response(404, JSONResponse([detail |-> "Not Found"]),
                           NoHeaders, FALSE)

\* CORSMiddleware.__call__ around the router.
AppCall(application, req) ==
    IF req.origin = None
    THEN Router(application.routes, req)
    ELSE IF req.method = "OPTIONS" /\ req.acrm # None
         THEN preflight_response(application.cors, req)
         ELSE simple_response(application.cors, req,
                              Router(application.routes, req))

\* Mutant: allow_methods=["*"].
MutNewAppAnyMethod(s) ==
    [title |-> s.app_name,
     version |-> s.app_version,
     cors |-> CORSMiddleware(s.allowed_origins, FALSE, <<"*">>,
                             <<"Content-Type", "Accept", "Cache-Control", "Origin">>,
                             <<"Content-Disposition">>),
     routes |-> include_router(FastAPIRoutes, HeartbeatRouter, HeartbeatPath)]

\* Mutant: allow_origins=["*"], allow_credentials=True.
MutNewAppAnyOrigin(s) ==
    [title |-> s.app_name,
     version |-> s.app_version,
     cors |-> CORSMiddleware(<<"*">>, TRUE,
                             <<"GET", "POST", "OPTIONS">>,
                             <<"Content-Type", "Accept", "Cache-Control", "Origin">>,
                             <<"Content-Disposition">>),
     routes |-> include_router(FastAPIRoutes, HeartbeatRouter, HeartbeatPath)]

\* main.py: app = FastAPI(...); app.add_middleware(...); app.include_router(...)
NewApp(s) ==
    [title |-> s.app_name,
     version |-> s.app_version,
     cors |-> CORSMiddleware(s.allowed_origins, FALSE,
                             <<"GET", "POST", "OPTIONS">>,
                             <<"Content-Type", "Accept", "Cache-Control", "Origin">>,
                             <<"Content-Disposition">>),
     routes |-> include_router(FastAPIRoutes, HeartbeatRouter, HeartbeatPath)]

(***************************************************************************)
(* State                                                                    *)
(***************************************************************************)
VARIABLES
    environ,        \* os.environ
    nEnvChanges,    \* mutations of os.environ so far
    mainpc,         \* "start", "imported" (settings.py loaded), "called"
                    \* (main.py:13 done), "serving", "crashed"
    moduleGlobals,  \* settings.py's google_cloud_project and default_region
    cache,          \* get_settings' lru_cache entry
    settings,       \* main.py's settings
    app,            \* main.py's app
    tpc,            \* each worker's place in get_settings()
    ttmp,           \* the Settings a worker constructed and has not stored
    tres,           \* the last value get_settings() returned to each worker
    staleHit,       \* whether some worker's call found a value in the cache
                    \* when Settings() would have built another one
    nConstructed,   \* Settings() constructions that succeeded
    firstRet,       \* the value the first get_settings() call returned
    envAtFirst,     \* os.environ when the first Settings() was constructed
    lastReq,        \* the request being handled, None between requests
    lastResp,       \* its response
    nHandled        \* requests dispatched so far

vars ==
    <<environ, nEnvChanges, mainpc, moduleGlobals, cache, settings, app, tpc,
      ttmp, tres, staleHit, nConstructed, firstRet, envAtFirst, lastReq, lastResp,
      nHandled>>

settingsVars == <<moduleGlobals, cache, settings, tpc, ttmp, tres, staleHit,
                  nConstructed,
                  firstRet, envAtFirst>>
httpVars == <<lastReq, lastResp, nHandled>>

InitWith(envs) ==
    /\ environ \in envs
    /\ nEnvChanges = 0
    /\ mainpc = "start"
    /\ moduleGlobals = [google_cloud_project |-> None, default_region |-> None]
    /\ cache = None
    /\ settings = None
    /\ app = None
    /\ tpc = [t \in Workers |-> "idle"]
    /\ ttmp = [t \in Workers |-> None]
    /\ tres = [t \in Workers |-> None]
    /\ staleHit = FALSE
    /\ nConstructed = 0
    /\ firstRet = None
    /\ envAtFirst = None
    /\ lastReq = None
    /\ lastResp = None
    /\ nHandled = 0

(***************************************************************************)
(* Actions                                                                  *)
(***************************************************************************)
\* Any code of the process sets, changes or unsets an environment variable.
EnvChange ==
    /\ mainpc # "crashed"
    /\ nEnvChanges < MaxEnvChanges
    /\ \E n \in EnvNames : \E v \in EnvValues(n) :
          /\ v # environ[n]
          /\ environ' = [environ EXCEPT ![n] = v]
    /\ nEnvChanges' = nEnvChanges + 1
    /\ UNCHANGED <<mainpc, app>>
    /\ UNCHANGED settingsVars
    /\ UNCHANGED httpVars

\* settings.py is loaded (main.py:8): its module-level os.getenv calls run.
ImportSettings ==
    /\ mainpc = "start"
    /\ moduleGlobals' =
          [google_cloud_project |-> getenv(environ, "GOOGLE_CLOUD_PROJECT"),
           default_region |-> getenv(environ, "DEFAULT_REGION")]
    /\ mainpc' = "imported"
    /\ UNCHANGED <<environ, nEnvChanges, cache, settings, app, tpc, ttmp, tres,
                   staleHit, nConstructed, firstRet, envAtFirst>>
    /\ UNCHANGED httpVars

\* The bookkeeping of a Settings() construction that succeeded.
Constructed ==
    /\ nConstructed' = nConstructed + 1
    /\ envAtFirst' = IF nConstructed = 0 THEN Some(environ) ELSE envAtFirst

\* The bookkeeping of a get_settings() call that returned value.
Returned(value) ==
    firstRet' = IF firstRet = None THEN value ELSE firstRet

\* Settings() in the current environment.
FreshSettings == NewSettings(environ, ClassDefaults(moduleGlobals))

\* What get_settings() returns when one thread runs it to its end: the
\* cached value, else a new Settings (None: Settings() raised).
GetSettingsValue ==
    IF LruHit(cache) THEN cache ELSE FreshSettings

\* get_settings() run to its end by one thread: a miss stores the value it
\* constructed; an exception stores nothing.
get_settings ==
    IF LruHit(cache)
    THEN /\ Returned(cache)
         /\ UNCHANGED <<cache, nConstructed, envAtFirst>>
    ELSE IF GetSettingsValue = None
    THEN UNCHANGED <<cache, nConstructed, firstRet, envAtFirst>>
    ELSE /\ cache' = GetSettingsValue
         /\ Constructed
         /\ Returned(GetSettingsValue)

\* main.py:13, settings = get_settings(): the only thread of the process
\* runs the whole call; an exception ends the import of main.py.
StartupGetSettings ==
    /\ mainpc = "imported"
    /\ get_settings
    /\ IF GetSettingsValue = None
       THEN /\ mainpc' = "crashed"
            /\ UNCHANGED settings
       ELSE /\ mainpc' = "called"
            /\ settings' = GetSettingsValue
    /\ UNCHANGED <<environ, nEnvChanges, moduleGlobals, app, tpc, ttmp, tres,
                   staleHit>>
    /\ UNCHANGED httpVars

\* A worker of the serving process calls get_settings(). The startup call
\* has stored its value, so the call is one cache lookup.
WorkerGetSettings(t) ==
    /\ mainpc = "serving"
    /\ tpc[t] = "idle"
    /\ get_settings
    /\ tres' = [tres EXCEPT ![t] = GetSettingsValue]
    /\ staleHit' = (staleHit \/ (LruHit(cache) /\ cache # FreshSettings))
    /\ UNCHANGED <<environ, nEnvChanges, mainpc, moduleGlobals, settings, app,
                   tpc, ttmp>>
    /\ UNCHANGED httpVars

\* Mutant: main.py builds the middleware from a second Settings().
MutBuildAppNewSettings ==
    /\ mainpc = "called"
    /\ FreshSettings # None
    /\ app' = Some(NewApp(FreshSettings[1]))
    /\ nConstructed' = nConstructed + 1
    /\ mainpc' = "serving"
    /\ UNCHANGED <<environ, nEnvChanges, moduleGlobals, cache, settings, tpc,
                   ttmp, tres, staleHit, firstRet, envAtFirst>>
    /\ UNCHANGED httpVars

\* main.py:15-39: the application, its CORS middleware and its routes.
BuildApp ==
    /\ mainpc = "called"
    /\ app' = Some(NewApp(settings[1]))
    /\ mainpc' = "serving"
    /\ UNCHANGED <<environ, nEnvChanges>>
    /\ UNCHANGED settingsVars
    /\ UNCHANGED httpVars

\* The application dispatches a request the server hands it, one of
\* requests: the whole of CORS middleware, router and endpoint.
HandleRequest(requests) ==
    /\ mainpc = "serving"
    /\ lastReq = None
    /\ nHandled < MaxRequests
    /\ \E req \in requests :
          /\ lastReq' = Some(req)
          /\ lastResp' = Some(AppCall(app[1], req))
    /\ nHandled' = nHandled + 1
    /\ UNCHANGED <<environ, nEnvChanges, mainpc, app>>
    /\ UNCHANGED settingsVars

\* The server sends the response; the exchange is over.
SendResponse ==
    /\ lastReq # None
    /\ lastReq' = None
    /\ lastResp' = None
    /\ UNCHANGED <<environ, nEnvChanges, mainpc, app, nHandled>>
    /\ UNCHANGED settingsVars

\* A thread calls get_settings() while others may be inside it: the cache
\* lookup.
GsLookup(t) ==
    /\ mainpc = "imported"
    /\ tpc[t] = "idle"
    /\ IF LruHit(cache)
       THEN /\ tres' = [tres EXCEPT ![t] = cache]
            /\ staleHit' = (staleHit \/ cache # FreshSettings)
            /\ Returned(cache)
            /\ UNCHANGED tpc
       ELSE /\ tpc' = [tpc EXCEPT ![t] = "constructing"]
            /\ UNCHANGED <<tres, staleHit, firstRet>>
    /\ UNCHANGED <<environ, nEnvChanges, mainpc, moduleGlobals, cache, settings,
                   app, ttmp, nConstructed, envAtFirst>>
    /\ UNCHANGED httpVars

\* On a miss the thread runs Settings(), outside the cache's lock; an
\* exception is raised to the caller and nothing is stored.
GsConstruct(t) ==
    /\ tpc[t] = "constructing"
    /\ LET new == FreshSettings
       IN  IF new = None
           THEN /\ tpc' = [tpc EXCEPT ![t] = "idle"]
                /\ tres' = [tres EXCEPT ![t] = None]
                /\ UNCHANGED <<ttmp, nConstructed, envAtFirst>>
           ELSE /\ tpc' = [tpc EXCEPT ![t] = "storing"]
                /\ ttmp' = [ttmp EXCEPT ![t] = new]
                /\ Constructed
                /\ UNCHANGED tres
    /\ UNCHANGED <<environ, nEnvChanges, mainpc, moduleGlobals, cache, settings,
                   app, staleHit, firstRet>>
    /\ UNCHANGED httpVars

\* The thread stores its value unless another call stored one meanwhile,
\* and returns the value it constructed either way.
GsStore(t) ==
    /\ tpc[t] = "storing"
    /\ cache' = IF cache = None THEN ttmp[t] ELSE cache
    /\ tres' = [tres EXCEPT ![t] = ttmp[t]]
    /\ ttmp' = [ttmp EXCEPT ![t] = None]
    /\ tpc' = [tpc EXCEPT ![t] = "idle"]
    /\ Returned(ttmp[t])
    /\ UNCHANGED <<environ, nEnvChanges, mainpc, moduleGlobals, settings, app,
                   staleHit, nConstructed, envAtFirst>>
    /\ UNCHANGED httpVars

(***************************************************************************)
(* Specifications                                                           *)
(***************************************************************************)
\* The server process (main.py) started in any environment, with workers
\* that call get_settings() once the application serves.
Init == InitWith(Environments)

Next ==
    \/ EnvChange
    \/ ImportSettings
    \/ StartupGetSettings
    \/ BuildApp
    \/ HandleRequest(CoreRequests)
    \/ SendResponse
    \/ \E t \in Workers : WorkerGetSettings(t)

Spec == Init /\ [][Next]_vars

\* The server process and every request of the model.
InitHttp == InitWith(HttpEnvironments)

NextHttp ==
    \/ ImportSettings
    \/ StartupGetSettings
    \/ BuildApp
    \/ HandleRequest(AllRequests)
    \/ SendResponse

SpecHttp == InitHttp /\ [][NextHttp]_vars

\* A process that loads settings.py and whose threads call get_settings()
\* with nothing cached yet.
InitRace == InitWith(Environments)

NextRace ==
    \/ EnvChange
    \/ ImportSettings
    \/ \E t \in Workers : GsLookup(t)
    \/ \E t \in Workers : GsConstruct(t)
    \/ \E t \in Workers : GsStore(t)

SpecRace == InitRace /\ [][NextRace]_vars

(***************************************************************************)
(* Properties                                                               *)
(***************************************************************************)
IsHeartbeatGet(req) == req.method = "GET" /\ req.path = HeartbeatPath

\* C1: every GET /api/heartbeat, whatever its Origin, CORS request headers,
\* cookie and query and however many requests came before it, is answered
\* with status 200 and the JSON body {"message": "alive"}.
C1_HeartbeatAlive ==
    (lastReq # None /\ IsHeartbeatGet(lastReq[1]))
        => /\ lastResp[1].status = 200
           /\ lastResp[1].body = [json |-> [message |-> "alive"]]

\* A second request, GET /api/heartbeat with an Origin that is not allowed,
\* a cookie and a query string, is answered 200.
C1_Witness ==
    /\ lastReq # None
    /\ IsHeartbeatGet(lastReq[1])
    /\ nHandled = 2
    /\ lastReq[1].origin = Some("https://evil.example")
    /\ lastReq[1].acrm = Some("DELETE")
    /\ lastReq[1].cookie
    /\ lastReq[1].query # None
    /\ lastResp[1].status = 200

\* C2: every get_settings() call after the first returns the value the
\* first call returned, whatever was done to the environment in between.
C2_Memoized ==
    /\ settings # None => settings = firstRet
    /\ \A t \in Workers : tres[t] # None => tres[t] = firstRet

\* A worker's call returned the first value although the environment had
\* changed and Settings() would have built another value.
C2_Witness ==
    /\ staleHit
    /\ nEnvChanges > 0
    /\ \E t \in Workers : tres[t] # None /\ tres[t] = firstRet

\* The environment has not been changed since the process started.
EnvFixed == nEnvChanges = 0

Started == mainpc \in {"called", "serving", "crashed"}

\* ALLOWED_ORIGINS is unset or holds a JSON list of strings.
OriginsDecodable(env) ==
    env["ALLOWED_ORIGINS"] \in {None, Some("[]"), Some("[\"https://app.example\"]"),
                               Some("[\"*\"]")}

\* C3 as claimed: in a fixed environment get_settings() never ends in an
\* error, and google_cloud_project and default_region are the values of
\* GOOGLE_CLOUD_PROJECT and DEFAULT_REGION (None when unset).
C3_Original ==
    (EnvFixed /\ Started)
        => /\ mainpc # "crashed"
           /\ settings[1].google_cloud_project = environ["GOOGLE_CLOUD_PROJECT"]
           /\ settings[1].default_region = environ["DEFAULT_REGION"]

\* C3, amended: in a fixed environment whose ALLOWED_ORIGINS is unset or a
\* JSON list of strings, get_settings() does not end in an error in any
\* presence combination of GOOGLE_CLOUD_PROJECT and DEFAULT_REGION, and
\* each field is its variable's value (None when unset).
C3_EnvFields ==
    (EnvFixed /\ Started /\ OriginsDecodable(environ))
        => /\ mainpc # "crashed"
           /\ settings[1].google_cloud_project = environ["GOOGLE_CLOUD_PROJECT"]
           /\ settings[1].default_region = environ["DEFAULT_REGION"]

\* GOOGLE_CLOUD_PROJECT unset and DEFAULT_REGION set, in a fixed environment.
C3_Witness ==
    /\ EnvFixed
    /\ mainpc = "serving"
    /\ environ["GOOGLE_CLOUD_PROJECT"] = None
    /\ environ["DEFAULT_REGION"] = Some("us-central1")
    /\ settings[1].google_cloud_project = None
    /\ settings[1].default_region = Some("us-central1")

\* C4 as claimed: the first call's google_cloud_project and default_region
\* are the variables' values at that call, None when absent then.
C4_Original ==
    firstRet # None
        => /\ firstRet[1].google_cloud_project
                = envAtFirst[1]["GOOGLE_CLOUD_PROJECT"]
           /\ firstRet[1].default_region = envAtFirst[1]["DEFAULT_REGION"]

\* C4, amended: a variable present at the first call yields its value then;
\* a variable absent at the first call yields the value it had when the
\* settings module was loaded (None when it was absent then as well).
C4_FirstCallReadsEnv ==
    firstRet # None
        => /\ firstRet[1].google_cloud_project
                = IF envAtFirst[1]["GOOGLE_CLOUD_PROJECT"] # None
                  THEN envAtFirst[1]["GOOGLE_CLOUD_PROJECT"]
                  ELSE moduleGlobals.google_cloud_project
           /\ firstRet[1].default_region
                = IF envAtFirst[1]["DEFAULT_REGION"] # None
                  THEN envAtFirst[1]["DEFAULT_REGION"]
                  ELSE moduleGlobals.default_region

\* GOOGLE_CLOUD_PROJECT changed between the load of settings.py and the
\* first call, which returned the later value.
C4_Witness ==
    /\ firstRet # None
    /\ moduleGlobals.google_cloud_project = Some("my-proj")
    /\ envAtFirst[1]["GOOGLE_CLOUD_PROJECT"] = Some("other-proj")
    /\ firstRet[1].google_cloud_project = Some("other-proj")
    /\ envAtFirst[1]["DEFAULT_REGION"] = None
    /\ firstRet[1].default_region = None

\* C5 as claimed: in every environment get_settings() returns the defaults
\* for app_name, app_version and allowed_origins.
C5_Original ==
    firstRet # None
        => /\ firstRet[1].app_name = "Sample API"
           /\ firstRet[1].app_version = "0.1.0"
           /\ firstRet[1].allowed_origins = <<>>

\* C5, amended: each of app_name, app_version and allowed_origins is its
\* default when the environment of the first call does not set APP_NAME,
\* APP_VERSION or ALLOWED_ORIGINS respectively, and the variable's value
\* (allowed_origins: its JSON list) when it does.
C5_DefaultsUnlessSet ==
    firstRet # None
        => LET env == envAtFirst[1]
               s == firstRet[1]
           IN  /\ s.app_name = IF env["APP_NAME"] = None THEN "Sample API"
                               ELSE env["APP_NAME"][1]
               /\ s.app_version = IF env["APP_VERSION"] = None THEN "0.1.0"
                                  ELSE env["APP_VERSION"][1]
               /\ env["ALLOWED_ORIGINS"] = None => s.allowed_origins = <<>>
               /\ env["ALLOWED_ORIGINS"] = Some("[\"https://app.example\"]")
                    => s.allowed_origins = <<"https://app.example">>

\* The process started with other variables set and none of the three:
\* the defaults are returned.
C5_Witness ==
    /\ firstRet # None
    /\ envAtFirst[1]["APP_NAME"] = None
    /\ envAtFirst[1]["APP_VERSION"] = None
    /\ envAtFirst[1]["ALLOWED_ORIGINS"] = None
    /\ envAtFirst[1]["GOOGLE_CLOUD_PROJECT"] # None
    /\ firstRet[1].app_name = "Sample API"
    /\ firstRet[1].app_version = "0.1.0"
    /\ firstRet[1].allowed_origins = <<>>

C7_ConstructedOnce ==
    [][/\ (mainpc' = "serving" \/ nHandled' > 0)
            => /\ nConstructed' = 1
               /\ settings' # None
               /\ settings' = firstRet'
               /\ app'[1].cors.allow_origins = settings'[1].allowed_origins
       /\ mainpc = "serving"
            => /\ nConstructed' = nConstructed
               /\ settings' = settings
               /\ cache' = cache
               /\ app' = app]_vars

\* Two requests were handled, a worker called get_settings() after the
\* environment changed, and Settings was constructed once.
C7_Witness ==
    /\ mainpc = "serving"
    /\ nHandled = 2
    /\ staleHit
    /\ nConstructed = 1
    /\ FreshSettings # settings

IsOptions(req) == req.method = "OPTIONS" /\ req.path = HeartbeatPath

\* The response lists GET, POST, OPTIONS as allowed methods and Content-Type,
\* Accept, Cache-Control and Origin among the allowed headers.
ListsCorsHeaders(resp) ==
    /\ resp.headers.acam = Some(<<"GET", "POST", "OPTIONS">>)
    /\ resp.headers.acah # None
    /\ {"Content-Type", "Accept", "Cache-Control", "Origin"}
            \subseteq resp.headers.acah[1]

\* C8 as claimed: every OPTIONS /api/heartbeat is answered with the CORS
\* headers, with or without Origin and Access-Control-Request-Method.
C8_Original ==
    (lastReq # None /\ IsOptions(lastReq[1])) => ListsCorsHeaders(lastResp[1])

\* C8, amended: every OPTIONS /api/heartbeat that carries both an Origin and
\* an Access-Control-Request-Method header is answered with the CORS
\* headers, whether or not its origin is allowed.
C8_PreflightHeaders ==
    (/\ lastReq # None
     /\ IsOptions(lastReq[1])
     /\ lastReq[1].origin # None
     /\ lastReq[1].acrm # None)
        => ListsCorsHeaders(lastResp[1])

\* A preflight from an origin that is not allowed is refused (400) and
\* carries the headers.
C8_Witness ==
    /\ lastReq # None
    /\ IsOptions(lastReq[1])
    /\ lastReq[1].origin = Some("https://evil.example")
    /\ lastReq[1].acrm = Some("GET")
    /\ lastResp[1].status = 400
    /\ lastResp[1].headers.acao = None
    /\ ListsCorsHeaders(lastResp[1])

\* C9 as claimed: a request to any other path than /api/heartbeat never
\* reaches the heartbeat handler and is answered 404.
C9_Original ==
    (lastReq # None /\ lastReq[1].path # HeartbeatPath)
        => /\ ~lastResp[1].handler
           /\ lastResp[1].status = 404

\* The paths FastAPI registers by itself.
FrameworkPaths ==
    {<<"openapi.json">>, <<"docs">>, <<"docs", "oauth2-redirect">>, <<"redoc">>}

\* The request is a CORS preflight, which the middleware answers itself.
IsPreflight(req) ==
    req.method = "OPTIONS" /\ req.origin # None /\ req.acrm # None

\* The path is a route's path followed by one or more slashes.
SlashVariant(path) ==
    \E r \in FrameworkPaths \cup {HeartbeatPath} :
        path \in {r \o <<"">>, r \o <<"", "">>}

\* C9, amended: a request to any other path than /api/heartbeat never
\* reaches the heartbeat handler; it is answered 404 unless it is a CORS
\* preflight (200 or 400), its path is one of the framework's own routes
\* (200 or 405), or its path is a route's path followed by slashes (307).
C9_UnroutedIs404 ==
    (lastReq # None /\ lastReq[1].path # HeartbeatPath)
        => /\ ~lastResp[1].handler
           /\ IF IsPreflight(lastReq[1]) THEN lastResp[1].status \in {200, 400}
              ELSE IF lastReq[1].path \in FrameworkPaths
              THEN lastResp[1].status \in {200, 405}
              ELSE IF SlashVariant(lastReq[1].path) THEN lastResp[1].status = 307
              ELSE lastResp[1].status = 404

\* GET /api/unknown with an Origin header is answered 404.
C9_Witness ==
    /\ lastReq # None
    /\ lastReq[1].path = <<"api", "unknown">>
    /\ lastReq[1].method = "GET"
    /\ lastReq[1].origin # None
    /\ lastResp[1].status = 404
    /\ ~lastResp[1].handler

\* C10: while allowed_origins is empty no response carries an
\* Access-Control-Allow-Origin header, and no response of any configuration
\* carries Access-Control-Allow-Credentials: true.
C10_NoOriginNoCredentials ==
    lastResp # None
        => /\ settings[1].allowed_origins = <<>>
                => lastResp[1].headers.acao = None
           /\ lastResp[1].headers.acac # Some("true")

\* The default configuration answers a preflight that names an origin, and
\* grants it nothing.
C10_Witness ==
    /\ lastResp # None
    /\ environ["ALLOWED_ORIGINS"] = None
    /\ settings[1].allowed_origins = <<>>
    /\ lastReq[1].origin = Some("https://app.example")
    /\ IsPreflight(lastReq[1])
    /\ lastResp[1].headers.acao = None
    /\ lastResp[1].headers.acac = None

====
